---- MODULE Spec2Model ----
(***************************************************************************)
(* State-machine model of the content pipeline of guglielmobrancato/msh:   *)
(* the persistent store (articles, metadata, publish_queue, source_cache), *)
(* the publish-queue sweep process_publish_queue ("drain") and the         *)
(* orchestrator run_pipeline ("run").  Every db.commit() of the source is  *)
(* a point where the store becomes visible, so the sweep and the run are   *)
(* cut into one action per group of statements ending in a commit.         *)
(* The mapped classes of models/schemas.py are taken as declared: the     *)
(* relationship Article.metadata is read as the rows of table metadata     *)
(* that reference the article.  A failure of the database itself is        *)
(* modelled for the dedup check of the run only, and sweeps and runs do    *)
(* not overlap in Spec.                                                    *)
(* IngestSpec applies the functions of modules/ingestion.py and the trim   *)
(* of run_pipeline to every fetched list of up to MaxFetched items.        *)
(* CallSpec calls parse_gemini_response and mark_article_published on      *)
(* their own.  ConcSpec runs two sweeps against one database.  StopSpec    *)
(* is the runs of a process that can stop at any point.                    *)
(***************************************************************************)
EXTENDS Integers, Sequences, FiniteSets, TLC

(***************************************************************************)
(* Bounds of the model.                                                    *)
(***************************************************************************)
MaxArticles == 1
MaxQueue == 2
MaxItems == 2
MaxFetched == 2
MaxConcQueue == 1

(***************************************************************************)
(* Enumerations of models/schemas.py and the value domains.                *)
(***************************************************************************)
DRAFT == "draft"
PUBLISHED == "published"
ArticleStatus == {DRAFT, PUBLISHED, "archived", "failed"}

STRAPI == "strapi"
INSTAGRAM == "instagram"
PublishPlatform == {STRAPI, INSTAGRAM}

PENDING == "pending"
PROCESSING == "processing"
COMPLETED == "completed"
FAILED == "failed"
PublishStatus == {PENDING, PROCESSING, COMPLETED, FAILED}

\* Python's None / SQL NULL.
None == "None"

\* Source URLs of raw items; "" is what a feed entry without a link yields.
Urls == {"", "u1", "u2"}
\* Raw bodies of fetched items.
Bodies == {"t1", "t2"}
\* Texts the generative service can return as the article content: a long
\* one, the echo of a raw body, and one below the minimum word count.
Contents == {"g1", "t1", "g_short"}

\* JSON a sink can answer with; "{}" is the empty object.
EmptyData == "{}"
SinkData == {EmptyData, "d1"}
\* Messages of the exceptions a sink call can raise.
ErrMsgs == {"timeout"}
NotConfigured == "error: Strapi not configured"
Disabled == "success: False, reason: disabled"
InstagramOk == "success: True"
AttributeErrorMsg == "'Metadata' object has no attribute 'instagram_summary'"

\* Python truthiness of a value handed to `if platform_data:`.
Truthy(v) == v \notin {None, EmptyData, ""}

(***************************************************************************)
(* Configuration (config.py).                                              *)
(***************************************************************************)
PlaceholderToken == "your_strapi_api_token_here"
Tokens == {"", PlaceholderToken, "strapi_token_0123456789abcdef0123456789"}
TokenMinLength == 30
article_min_words == 1500
max_articles_per_run == 5

\* Settings() without its field validation.
UnvalidatedSettings == [strapi_api_token : Tokens, instagram_enabled : BOOLEAN]

\* Settings(): the values the pydantic validation lets through.
ValidSettings ==
    { s \in [strapi_api_token : Tokens, instagram_enabled : BOOLEAN] :
        Len(s.strapi_api_token) >= TokenMinLength }

VARIABLES
    settings,       \* the process-wide Settings instance
    articles,       \* table articles: sequence, id = index
    metadata,       \* table metadata: sequence of rows [article_id]
    publish_queue,  \* table publish_queue: sequence, id = index
    source_cache,   \* table source_cache: set of [source_url, content_hash]
    sweep,          \* process_publish_queue: per sweep its position
    run,            \* run_pipeline: its position and locals
    sink_log,       \* history: per queue id, the outcomes of its sink calls
    cms_ok,         \* history: article ids whose CMS POST returned successfully
    ingest,         \* fetch_all_sources and the trim of run_pipeline: lists of raw items
    run_log,        \* history: the gate's verdict on the current item, calls made by the run
    call            \* a function called on its own: its arguments, then its result

vars == <<settings, articles, metadata, publish_queue, source_cache, sweep, run,
          sink_log, cms_ok, ingest, run_log, call>>

env == <<settings, ingest, call>>

db == <<articles, metadata, publish_queue, source_cache>>
hist == <<sink_log, cms_ok, run_log>>

(***************************************************************************)
(* modules/database.py                                                     *)
(***************************************************************************)
\* hashlib.sha256(content).hexdigest(): injective on the texts of the model.
create_content_hash(content) == <<"sha256", content>>

\* is_duplicate without its lookup by URL.
is_duplicate_hash_only(cache, url, content) ==
    \E c \in cache : c.content_hash = create_content_hash(content)

is_duplicate(cache, url, content) ==
    LET content_hash == create_content_hash(content)
        url_exists == \E c \in cache : c.source_url = url
        hash_exists == \E c \in cache : c.content_hash = content_hash
    IN  IF url_exists THEN TRUE
        ELSE IF hash_exists THEN TRUE
        ELSE FALSE

\* The row save_article adds and commits first.
\* save_article dropping the source URL of the item.
NewArticleWithoutUrl(source_url) == [source_url |-> None, status |-> DRAFT]

NewArticle(source_url) == [source_url |-> source_url, status |-> DRAFT]

\* The SourceCache row of save_article: source_url and the hash of `content`.
NewCacheEntry(source_url, content) ==
    [source_url |-> source_url, content_hash |-> create_content_hash(content)]

\* UNIQUE(source_url), UNIQUE(content_hash) of SourceCache.
ViolatesUnique(cache, entry) ==
    \E c \in cache : c.source_url = entry.source_url
                     \/ c.content_hash = entry.content_hash

\* The row add_to_publish_queue inserts.
NewQueueEntry(article_id, platform) ==
    [article_id |-> article_id, platform |-> platform, status |-> PENDING,
     retry_count |-> 0, error_message |-> None, published_time |-> None,
     platform_data |-> None]

\* The ids of the rows with status PENDING, in some order: the query carries
\* no ORDER BY, so every order of the rows is a possible answer.
PendingOrFailedIds(pq) == { i \in DOMAIN pq : pq[i].status \in {PENDING, FAILED} }

PendingIds(pq) == { i \in DOMAIN pq : pq[i].status = PENDING }

Orders(S) ==
    { f \in [1..Cardinality(S) -> S] : \A i, j \in DOMAIN f : i # j => f[i] # f[j] }

get_pending_publications(pq) == Orders(PendingIds(pq))

\* update_publish_status counting every update as a retry.
update_publish_status_counting(pq, queue_id, status, error_message, platform_data) ==
    LET e0 == pq[queue_id]
        e1 == [e0 EXCEPT !.status = status, !.retry_count = @ + 1]
        e2 == IF status = COMPLETED
              THEN [e1 EXCEPT !.published_time = "utcnow"] ELSE e1
        e3 == IF status = FAILED
              THEN [e2 EXCEPT !.error_message = error_message] ELSE e2
        e4 == IF Truthy(platform_data)
              THEN [e3 EXCEPT !.platform_data = platform_data] ELSE e3
    IN  [pq EXCEPT ![queue_id] = e4]

update_publish_status(pq, queue_id, status, error_message, platform_data) ==
    LET e0 == pq[queue_id]
        e1 == [e0 EXCEPT !.status = status]
        e2 == IF status = COMPLETED
              THEN [e1 EXCEPT !.published_time = "utcnow"] ELSE e1
        e3 == IF status = FAILED
              THEN [e2 EXCEPT !.retry_count = @ + 1,
                              !.error_message = error_message]
              ELSE e2
        e4 == IF Truthy(platform_data)
              THEN [e3 EXCEPT !.platform_data = platform_data] ELSE e3
    IN  [pq EXCEPT ![queue_id] = e4]

mark_article_published(arts, article_id) ==
    IF article_id \in DOMAIN arts
    THEN [arts EXCEPT ![article_id].status = PUBLISHED]
    ELSE arts

(***************************************************************************)
(* The sinks: modules/publishing.py publish_to_strapi and                  *)
(* modules/instagram.py post_to_instagram.  An outcome is what the call    *)
(* does: return a value (raised = FALSE) or raise (raised = TRUE, value is *)
(* str(e)); delivered tells whether the remote side accepted the post.     *)
(***************************************************************************)
Returned(v, delivered) == [raised |-> FALSE, value |-> v, delivered |-> delivered]
Raised(m) == [raised |-> TRUE, value |-> m, delivered |-> FALSE]

publish_to_strapi(cfg) ==
    IF cfg.strapi_api_token = "" \/ cfg.strapi_api_token = PlaceholderToken
    THEN { Returned(NotConfigured, FALSE) }
    ELSE { Returned(d, TRUE) : d \in SinkData } \cup { Raised(m) : m \in ErrMsgs }

post_to_instagram(cfg, has_metadata) ==
    IF ~cfg.instagram_enabled
    THEN { Returned(Disabled, FALSE) }
    ELSE IF has_metadata
    THEN { Raised(AttributeErrorMsg) }
    ELSE { Returned(InstagramOk, TRUE) } \cup { Raised(m) : m \in ErrMsgs }

HasMetadata(md, article_id) == \E i \in DOMAIN md : md[i].article_id = article_id

(***************************************************************************)
(* modules/ingestion.py: scoring, filtering and same-batch deduplication.  *)
(***************************************************************************)
\* config.RELEVANCE_KEYWORDS.
RELEVANCE_KEYWORDS ==
    [ geopolitics |->
        { "sovereignty", "multilateral", "bilateral", "treaty", "sanctions",
          "diplomatic", "territorial", "strategic partnership", "alliance",
          "geopolitical", "foreign policy", "international relations" },
      defense |->
        { "kinetic", "military", "defense", "armed forces", "weapons system",
          "deterrence", "force projection", "strategic assets", "NATO",
          "joint exercises", "combat", "operations", "security cooperation" },
      cyber |->
        { "APT", "threat actor", "vulnerability", "cyber attack", "malware",
          "ransomware", "threat landscape", "attribution", "cyber espionage",
          "zero-day", "intrusion", "breach", "cybersecurity" },
      finance |->
        { "fiscal", "monetary policy", "sovereign debt", "liquidity",
          "central bank", "interest rate", "inflation", "GDP", "bond yield",
          "market volatility", "financial stability", "economic indicator" } ]

\* str.lower() on the phrases of the model: the keywords of the
\* configuration and the phrases as the raw texts spell them.
Lower(s) ==
    CASE s = "NATO" -> "nato"
      [] s = "APT" -> "apt"
      [] s = "GDP" -> "gdp"
      [] s = "Military" -> "military"
      [] OTHER -> s

\* keyword.lower() for the keywords of the configuration.
KeywordLower(keyword) == Lower(keyword)

\* A text (title + ' ' + content) is modelled by the set of phrases that
\* occur in it as substrings, spelled as the text spells them.
TextNone == {}
TextGeo9 ==
    { "sovereignty", "multilateral", "bilateral", "treaty", "sanctions",
      "diplomatic", "territorial", "alliance", "geopolitical" }
TextGeo12 == TextGeo9 \cup { "strategic partnership", "foreign policy",
                             "international relations" }
TextDef10 ==
    { "kinetic", "Military", "defense", "armed forces", "deterrence", "NATO",
      "combat", "operations", "alliance", "weapons system" }

\* Line 242: (title + ' ' + content).lower().
TextLower(text) == { Lower(phrase) : phrase \in text }
Texts == { TextNone, TextGeo9, TextGeo12, TextDef10 }

\* Titles are sequences of characters.
Titles == { <<"N", "a">>, <<"n", "a", "!">>, <<"b">> }
\* len(article.content) of the raw items.
ContentLens == { 50, 100 }
ItemCategories == { "geopolitics", "defense" }

\* A float in [0,1] is kept as the fraction <<numerator, denominator>>.
Zero == <<0, 1>>
One == <<1, 1>>
Less(x, y) == x[1] * y[2] < y[1] * x[2]

\* NewsArticle objects as the source adapters build them (relevance_score
\* has its default 0.0).
NewsArticles ==
    [ title : Titles, content_len : ContentLens, category : ItemCategories,
      text : Texts, relevance_score : {Zero} ]

\* The lists a fetch can yield.
FetchedLists == UNION { [1..n -> NewsArticles] : n \in 0..MaxFetched }

\* The score that compares the keywords with the text as they are spelled.
calculate_relevance_score_case_sensitive(article) ==
    LET category_keywords == RELEVANCE_KEYWORDS[article.category]
        matches == Cardinality({ k \in category_keywords : k \in article.text })
        total == Cardinality(category_keywords)
    IN  IF total = 0 THEN <<0, 1>> ELSE <<matches, total>>

\* calculate_relevance_score: matches / len(category_keywords), capped at 1.0;
\* 0.0 for an empty keyword list.
calculate_relevance_score(article) ==
    LET category_keywords == RELEVANCE_KEYWORDS[article.category]
        text == TextLower(article.text)
        matches == Cardinality({ k \in category_keywords :
                                   KeywordLower(k) \in text })
        total == Cardinality(category_keywords)
    IN  IF total = 0 THEN Zero
        ELSE IF matches > total THEN One
        ELSE <<matches, total>>

NoScore == <<>>
\* settings.min_relevance_score (default 0.7).
min_relevance_score == <<7, 10>>
\* The min_score arguments of filter_content; <<>> is None.
MinScoreArgs == { NoScore, Zero, <<3, 4>>, One }

\* Line 282: the minimum content length.
MinContentLength == 100

\* The filter looking at the score only.
PassesFilterScoreOnly(article, min_score) ==
    ~Less(calculate_relevance_score(article), min_score)

\* Lines 278-283: the two conditions under which the loop keeps an article.
PassesFilter(article, min_score) ==
    /\ ~(Less(calculate_relevance_score(article), min_score))
    /\ ~(article.content_len < MinContentLength)

\* list.sort(key=relevance_score, reverse=True): a stable sort; an article
\* goes behind those already placed whose score is not lower than its own.
InsertDesc(sorted, x) ==
    LET k == Cardinality({ i \in DOMAIN sorted :
                             ~Less(sorted[i].relevance_score, x.relevance_score) })
    IN  SubSeq(sorted, 1, k) \o <<x>> \o SubSeq(sorted, k + 1, Len(sorted))

RECURSIVE SortDesc(_)
SortDesc(xs) ==
    IF xs = <<>> THEN <<>>
    ELSE InsertDesc(SortDesc(SubSeq(xs, 1, Len(xs) - 1)), xs[Len(xs)])

\* Line 275: the score is written into the article.
Scored(article) ==
    [article EXCEPT !.relevance_score = calculate_relevance_score(article)]

\* filter_content(articles, min_score).
filter_content(items, min_score) ==
    LET threshold == IF min_score = NoScore THEN min_relevance_score ELSE min_score
        scored == [i \in DOMAIN items |-> Scored(items[i])]
        filtered == SelectSeq(scored, LAMBDA a : PassesFilter(a, threshold))
    IN  SortDesc(filtered)

\* A title.lower() that leaves every character as it is.
CharLowerIdentity(c) == c

\* str.lower() and the characters re.sub(r'[^\w\s]', '', ...) keeps.
CharLower(c) == IF c = "N" THEN "n" ELSE c
IsWordOrSpace(c) == c \in { "n", "a", "b", "N", " ", "_" }

\* Line 311: the normalized title.
normalize(title) ==
    SelectSeq([i \in DOMAIN title |-> CharLower(title[i])], IsWordOrSpace)

\* The deduplication that keeps everything.
deduplicate_keep_all(items) == items

RECURSIVE DedupFrom(_, _, _)
DedupFrom(items, i, seen_titles) ==
    IF i > Len(items) THEN <<>>
    ELSE LET normalized == normalize(items[i].title)
         IN  IF normalized \notin seen_titles
             THEN <<items[i]>> \o DedupFrom(items, i + 1, seen_titles \cup {normalized})
             ELSE DedupFrom(items, i + 1, seen_titles)

\* deduplicate(articles).
deduplicate(items) == DedupFrom(items, 1, {})

\* The ingestion that filters first and deduplicates what is left.
fetch_all_sources_filter_first(fetched) == deduplicate(filter_content(fetched, NoScore))

\* fetch_all_sources lines 345-354: deduplicate, then filter with the
\* configured minimum score.
fetch_all_sources(fetched) == filter_content(deduplicate(fetched), NoScore)

\* The ingestion is not being looked at.
IngestOff == [pc |-> "off", fetched |-> <<>>, out |-> <<>>, min_score |-> NoScore,
              max_articles |-> <<>>, visit |-> <<>>]

(***************************************************************************)
(* Initial state: an empty store, nothing running.                         *)
(***************************************************************************)
Sweeps == {1}

IdleSweep == [pc |-> "idle", pending |-> <<>>, i |-> 0]
IdleRun == [pc |-> "idle"]
\* History of the run in progress: what became of the item the loop visited
\* last ("new" while it is past the dedup gate and still being processed,
\* then "duplicate", "short", "error" or "processed"), and how many analysis
\* calls and sink calls the run has made and how many articles it has
\* persisted so far.
NoLog == [verdict |-> "none", analysis_calls |-> 0, deliveries |-> 0, persisted |-> 0]

\* The store after init_database and the pipeline at rest.
PipelineInit ==
    /\ settings \in ValidSettings
    /\ articles = <<>>
    /\ metadata = <<>>
    /\ publish_queue = <<>>
    /\ source_cache = {}
    /\ sweep = [d \in Sweeps |-> IdleSweep]
    /\ run = IdleRun
    /\ sink_log = <<>>
    /\ cms_ok = {}
    /\ run_log = NoLog

\* No function is being called on its own.
CallOff == [pc |-> "off"]

Init ==
    /\ PipelineInit
    /\ ingest = IngestOff
    /\ call = CallOff

\* The pipeline is single-threaded: an operation starts when none is running.
AllIdle == run.pc = "idle" /\ \A d \in DOMAIN sweep : sweep[d].pc = "idle"

(***************************************************************************)
(* schedule_publication / add_to_publish_queue ("enqueue").  The foreign   *)
(* key publish_queue.article_id -> articles.id rejects an unknown article. *)
(***************************************************************************)
EnqueueArticleIds(arts) == DOMAIN arts

Enqueue(room, article_id, platform) ==
    /\ AllIdle
    /\ Len(publish_queue) < room
    /\ article_id \in EnqueueArticleIds(articles)
    /\ publish_queue' = Append(publish_queue, NewQueueEntry(article_id, platform))
    /\ sink_log' = Append(sink_log, <<>>)
    /\ UNCHANGED <<env, articles, metadata, source_cache, sweep, run,
                   cms_ok, run_log>>

schedule_publication(article_id, platform) == Enqueue(MaxQueue, article_id, platform)

(***************************************************************************)
(* process_publish_queue ("drain").                                        *)
(***************************************************************************)
\* Lines 109-115: read the pending entries; nothing to do when there are none.
DrainRead(d) ==
    /\ sweep[d].pc = "idle"
    /\ PendingIds(publish_queue) # {}
    /\ \E pending \in get_pending_publications(publish_queue) :
         sweep' = [sweep EXCEPT ![d] = [pc |-> "loop", pending |-> pending, i |-> 1]]
    /\ UNCHANGED <<env, db, run, hist>>

\* A sweep started while nothing else is running.
DrainStart(d) == AllIdle /\ DrainRead(d)

\* A sweep started by another process while a sweep may be under way.
DrainStartConcurrent(d) == run.pc = "idle" /\ DrainRead(d)

\* The sweep leaving the entry as it found it before the sink call.
ClaimStatusSkipped == PENDING

\* The status the loop commits for the entry it has reached, before the sink
\* call (lines 128-133).
ClaimStatus == PROCESSING

\* A loop that looks at the entry again and leaves it alone unless it is
\* still pending.
ClaimsIfStillPending(entry) == entry.status = PENDING

\* Lines 117-133: between the read of line 109 and the update of line 129
\* the loop does not look at the status of the entry again; it claims
\* whatever it has read.
Claims(entry) == TRUE

\* Lines 117-133: look the article up; skip the entry when it is missing,
\* otherwise commit status PROCESSING.
DrainClaim(d) ==
    /\ sweep[d].pc = "loop"
    /\ sweep[d].i <= Len(sweep[d].pending)
    /\ LET qid == sweep[d].pending[sweep[d].i]
           entry == publish_queue[qid]
       IN  IF entry.article_id \notin DOMAIN articles \/ ~Claims(entry)
           THEN /\ sweep' = [sweep EXCEPT ![d].i = @ + 1]
                /\ UNCHANGED publish_queue
           ELSE /\ publish_queue' =
                      update_publish_status(publish_queue, qid, ClaimStatus, None, None)
                /\ sweep' = [sweep EXCEPT ![d].pc = "publish"]
    /\ UNCHANGED <<env, articles, metadata, source_cache, run, hist>>

\* The sink call of an entry, by platform (lines 136-137 and 150-160).
SinkOutcomes(entry) ==
    IF entry.platform = STRAPI
    THEN publish_to_strapi(settings)
    ELSE post_to_instagram(settings, HasMetadata(metadata, entry.article_id))

\* Lines 139-148 and 162-168: what follows a sink call that returned.
OnSinkReturned(pq, qid, result) ==
    update_publish_status(pq, qid, COMPLETED, None, result)

MarksPublishedAlways(platform) == TRUE

\* Line 148: only the Strapi branch marks the article published.
MarksPublished(platform) == platform = STRAPI

\* The except clause forgetting to pass str(e).
OnSinkRaisedNoMessage(pq, qid, message) ==
    update_publish_status(pq, qid, FAILED, None, None)

\* Lines 172-181: what follows a sink call that raised.
OnSinkRaised(pq, qid, message) ==
    update_publish_status(pq, qid, FAILED, message, None)

\* The sweep giving up at the first sink that raises.
NextIndexAbortOnFailure(sw, raised) ==
    IF raised THEN Len(sw.pending) + 1 ELSE sw.i + 1

\* Lines 117 and 172-181: the for loop goes on to the next entry whether the
\* sink returned or raised (the except clause does not re-raise).
NextIndex(sw, raised) == sw.i + 1

\* Lines 135-181: invoke the sink of the claimed entry and record the result.
DrainPublish(d) ==
    /\ sweep[d].pc = "publish"
    /\ LET qid == sweep[d].pending[sweep[d].i]
           entry == publish_queue[qid]
       IN  \E o \in SinkOutcomes(entry) :
             /\ sink_log' = [sink_log EXCEPT ![qid] = Append(@, o)]
             /\ cms_ok' = IF entry.platform = STRAPI /\ o.delivered
                          THEN cms_ok \cup {entry.article_id} ELSE cms_ok
             /\ IF o.raised
                THEN /\ publish_queue' = OnSinkRaised(publish_queue, qid, o.value)
                     /\ UNCHANGED articles
                ELSE /\ publish_queue' = OnSinkReturned(publish_queue, qid, o.value)
                     /\ articles' = IF MarksPublished(entry.platform)
                                    THEN mark_article_published(articles, entry.article_id)
                                    ELSE articles
             /\ sweep' = [sweep EXCEPT ![d].pc = "loop",
                                       ![d].i = NextIndex(sweep[d], o.raised)]
    /\ UNCHANGED <<env, metadata, source_cache, run, run_log>>

\* Lines 183-185: the loop is exhausted.
DrainEnd(d) ==
    /\ sweep[d].pc = "loop"
    /\ sweep[d].i > Len(sweep[d].pending)
    /\ sweep' = [sweep EXCEPT ![d] = IdleSweep]
    /\ UNCHANGED <<env, db, run, hist>>

(***************************************************************************)
(* scripts/run_pipeline.py run_pipeline ("run").                           *)
(***************************************************************************)
\* The raw items fetch_all_sources can yield.  The list it returns is fixed
\* when the run starts; the model draws each item when the loop reaches it,
\* which is the first time the run reads it.
RawItems == [url : Urls, content : Bodies]
NoItem == [url |-> None, content |-> None]

\* len(article_content.split()) of a generated text.
word_count(content) ==
    IF content = "g_short" THEN article_min_words - 1 ELSE article_min_words

\* analyze_with_gemini: the service call raises, or the parsed response.
analyze_with_gemini ==
    { Raised(m) : m \in ErrMsgs }
    \cup { Returned([content |-> c, word_count |-> word_count(c)], TRUE) : c \in Contents }

\* The keyword arguments run_pipeline passes to save_metadata (lines 103-111)
\* and the parameters save_metadata declares (database.py lines 125-134).
RunSaveMetadataKwargs ==
    {"db", "article_id", "tags", "keywords", "seo_description", "entities",
     "instagram_summary"}
SaveMetadataParams ==
    {"db", "article_id", "tags", "keywords", "seo_description", "entities",
     "instagram_caption", "instagram_hashtags"}
\* A call with a keyword the function does not declare raises TypeError.
SaveMetadataCallRaises == ~(RunSaveMetadataKwargs \subseteq SaveMetadataParams)

\* An optional int: <<>> is Python's None, <<n>> the int n.
NoArg == <<>>
IntArg(n) == <<n>>

\* Line 41: `max_articles or settings.max_articles_per_run`; None and 0 are
\* falsy.
EffectiveMax(max_articles) ==
    IF max_articles = NoArg THEN max_articles_per_run
    ELSE IF max_articles[1] = 0 THEN max_articles_per_run
    ELSE max_articles[1]

\* len(xs[:stop]) for a list of length n: a negative stop counts from the end.
SliceLen(n, stop) ==
    IF stop >= 0
    THEN (IF stop < n THEN stop ELSE n)
    ELSE (IF n + stop > 0 THEN n + stop ELSE 0)

\* Line 53: len(raw_articles[:max_articles]).
TrimLen(fetched, max_articles) == SliceLen(fetched, EffectiveMax(max_articles))

\* The values of the --max-articles argument (type=int, optional).
MaxArticlesArgs == {NoArg} \cup { IntArg(n) : n \in -1 .. MaxItems }

\* Lines 41-63: fetch (`fetched` items), trim to max_articles, open the
\* session.  An empty fetch returns at line 50 without touching anything.
RunStartWithin(room, fetched, max_articles, dry_run) ==
    /\ AllIdle
    /\ Len(articles) < room
    /\ fetched > 0
    /\ run' = [pc |-> IF TrimLen(fetched, max_articles) = 0 THEN "summary" ELSE "check",
               n |-> TrimLen(fetched, max_articles), idx |-> 1,
               item |-> NoItem, dry_run |-> dry_run, processed_count |-> 0,
               skipped_count |-> 0, analysis |-> None, article_id |-> 0]
    /\ run_log' = NoLog
    /\ UNCHANGED <<env, db, sweep, sink_log, cms_ok>>

RunStart(fetched, max_articles, dry_run) ==
    RunStartWithin(MaxArticles, fetched, max_articles, dry_run)

\* `continue` or the end of the loop body: on to the next item, or to the summary.
Advance(r) ==
    [r EXCEPT !.idx = @ + 1,
              !.pc = IF r.idx + 1 > r.n THEN "summary" ELSE "check",
              !.item = NoItem, !.analysis = None, !.article_id = 0]

\* The except clause ending the loop instead of going on.
OnItemExceptionStop(r) == [r EXCEPT !.pc = "summary"]

\* The except clause counting the item as skipped.
OnItemExceptionSkipped(r) == Advance([r EXCEPT !.skipped_count = @ + 1])

\* Lines 141-145: an exception raised inside the try is printed and the loop
\* continues with the next item.
OnItemException(r) == Advance(r)

\* The word-count check letting every analysis through.
MeetsMinimumAlways(analysis) == TRUE

\* Line 83: the analysis has at least settings.article_min_words words.
MeetsMinimum(analysis) == analysis.word_count >= article_min_words

\* The run without its dedup gate.
DedupGateOpen(cache, item) == FALSE

\* The gate asking for the content hash only.
DedupGateByHash(cache, item) ==
    \E c \in cache : c.content_hash = create_content_hash(item.content)

\* The answer of the dedup gate for an item (line 68).
DedupGate(cache, item) == is_duplicate(cache, item.url, item.content)

\* The call is_duplicate(db, url, content) of line 68: its answer, or the
\* exception of a query the database could not run.
DbErrMsgs == {"OperationalError"}
DedupCheckOutcomes(cache, item) ==
    { Returned(DedupGate(cache, item), FALSE) } \cup { Raised(m) : m \in DbErrMsgs }

\* Lines 64-71: the dedup gate.  The call is outside the try of line 73: an
\* exception it raises leaves the loop and the session (get_db rolls back and
\* re-raises) and ends run_pipeline without its summary.
RunCheck ==
    /\ run.pc = "check"
    /\ \E item \in RawItems :
         \E o \in DedupCheckOutcomes(source_cache, item) :
           IF o.raised
           THEN /\ run' = IdleRun
                /\ run_log' = NoLog
           ELSE IF o.value
           THEN /\ run' = Advance([run EXCEPT !.skipped_count = @ + 1])
                /\ run_log' = [run_log EXCEPT !.verdict = "duplicate"]
           ELSE /\ run' = [run EXCEPT !.pc = "analyze", !.item = item]
                /\ run_log' = [run_log EXCEPT !.verdict = "new"]
    /\ UNCHANGED <<env, db, sweep, sink_log, cms_ok>>

\* Lines 73-86 and 141-145: the analysis call and the word-count check.
RunAnalyze ==
    /\ run.pc = "analyze"
    /\ \E o \in analyze_with_gemini :
         IF o.raised
         THEN /\ run' = OnItemException(run)
              /\ run_log' = [run_log EXCEPT !.verdict = "error", !.analysis_calls = @ + 1]
         ELSE IF ~MeetsMinimum(o.value)
         THEN /\ run' = Advance([run EXCEPT !.skipped_count = @ + 1])
              /\ run_log' = [run_log EXCEPT !.verdict = "short", !.analysis_calls = @ + 1]
         ELSE /\ run' = [run EXCEPT !.pc = "save", !.analysis = o.value]
              /\ run_log' = [run_log EXCEPT !.analysis_calls = @ + 1]
    /\ UNCHANGED <<env, db, sweep, sink_log, cms_ok>>

\* save_article lines 95-110: insert the Article and commit.
RunSaveArticleWithin(room) ==
    /\ run.pc = "save"
    /\ Len(articles) < room
    /\ articles' = Append(articles, NewArticle(run.item.url))
    /\ run' = [run EXCEPT !.pc = "cache", !.article_id = Len(articles) + 1]
    /\ run_log' = [run_log EXCEPT !.persisted = @ + 1]
    /\ UNCHANGED <<env, metadata, publish_queue, source_cache, sweep, sink_log, cms_ok>>

RunSaveArticle == RunSaveArticleWithin(MaxArticles)

\* The text save_article hashes into the SourceCache row: its `content`
\* argument, which run_pipeline binds to analysis['content'] (line 92).
CachedContent(item, analysis) == analysis.content

\* save_article lines 112-119: insert the SourceCache row and commit; the
\* IntegrityError of a unique constraint is caught by the loop (line 141).
RunCacheEntry ==
    /\ run.pc = "cache"
    /\ LET source_url == run.item.url
           content == CachedContent(run.item, run.analysis)
           entry == NewCacheEntry(source_url, content)
       IN  IF ~(source_url # "" /\ content # "")
           THEN /\ run' = [run EXCEPT !.pc = "meta"]
                /\ UNCHANGED <<source_cache, run_log>>
           ELSE IF ViolatesUnique(source_cache, entry)
           THEN /\ run' = OnItemException(run)
                /\ run_log' = [run_log EXCEPT !.verdict = "error"]
                /\ UNCHANGED source_cache
           ELSE /\ source_cache' = source_cache \cup {entry}
                /\ run' = [run EXCEPT !.pc = "meta"]
                /\ UNCHANGED run_log
    /\ UNCHANGED <<env, articles, metadata, publish_queue, sweep, sink_log, cms_ok>>

\* Lines 102-139: save_metadata, the processed counter and, unless dry_run,
\* the two deliveries, each in its own try.  The save_metadata call raises
\* TypeError, which the loop's except (lines 141-145) turns into `continue`.
RunSaveMetadata ==
    /\ run.pc = "meta"
    /\ IF SaveMetadataCallRaises
       THEN /\ run' = OnItemException(run)
            /\ run_log' = [run_log EXCEPT !.verdict = "error"]
            /\ UNCHANGED <<articles, metadata, cms_ok>>
       ELSE \E o1 \in publish_to_strapi(settings),
               o2 \in post_to_instagram(settings, TRUE) :
              LET cms == ~run.dry_run
                  social == ~run.dry_run /\ settings.instagram_enabled
              IN  /\ metadata' = Append(metadata, [article_id |-> run.article_id])
                  /\ run' = Advance([run EXCEPT !.processed_count = @ + 1])
                  /\ articles' = IF cms /\ ~o1.raised
                                 THEN mark_article_published(articles, run.article_id)
                                 ELSE articles
                  /\ cms_ok' = IF cms /\ o1.delivered
                               THEN cms_ok \cup {run.article_id} ELSE cms_ok
                  /\ run_log' = [run_log EXCEPT
                                   !.verdict = "processed",
                                   !.deliveries = @ + (IF cms THEN 1 ELSE 0)
                                                    + (IF social THEN 1 ELSE 0)]
    /\ UNCHANGED <<env, publish_queue, source_cache, sweep, sink_log>>

\* Lines 147-162: the summary; the run returns.
RunEnd ==
    /\ run.pc = "summary"
    /\ run' = IdleRun
    /\ run_log' = NoLog
    /\ UNCHANGED <<env, db, sweep, sink_log, cms_ok>>

(***************************************************************************)
(* modules/analysis.py parse_gemini_response.  A string is a sequence of   *)
(* characters.  A response is described by what the parser looks for in    *)
(* it: whether it holds the marker "---METADATA---", the labelled fields   *)
(* its text holds (after the marker, when there is one), and the text the  *)
(* summary is taken from (what follows the heading EXECUTIVE SUMMARY, or    *)
(* else the first paragraph).  The title, the content and the word count   *)
(* of the result are left out here; word_count above stands for the last.  *)
(***************************************************************************)
SummaryLimit == 500
SeoLimit == 160
InstagramLimit == 300

Str(n) == [i \in 1..n |-> i % 10]
\* s[:n] for n >= 0.
Take(s, n) == SubSeq(s, 1, IF n < Len(s) THEN n ELSE Len(s))

\* The labelled fields of a text; `nonempty` tells whether the text has any
\* character at all.  An absent field is <<>>.
LabelledFields ==
    { f \in [ nonempty : BOOLEAN,
              seo : { NoArg, <<Str(200)>> },
              keywords : { NoArg, << <<"k1", "k2">> >> },
              entities : { "absent", "json", "broken" },
              instagram : { NoArg, <<Str(20)>> } ] :
        ~f.nonempty => /\ f.seo = NoArg /\ f.keywords = NoArg
                       /\ f.entities = "absent" /\ f.instagram = NoArg }
NoFields == [ nonempty |-> FALSE, seo |-> NoArg, keywords |-> NoArg,
              entities |-> "absent", instagram |-> NoArg ]
\* json.loads of the ENTITIES object of the model.
ParsedEntities == { <<"countries", "x">> }

Responses ==
    [ marker : BOOLEAN, labelled : LabelledFields,
      summary_source : { Str(n) : n \in {0, 100, 160, 161, 500, 501} } ]

\* A parser that reads the labelled fields with or without the marker.
metadata_section_unmarked(response) == response.labelled

\* Lines 114-121: the text after the marker, "" when there is no marker.
metadata_section(response) ==
    IF response.marker THEN response.labelled ELSE NoFields

parse_gemini_response(response) ==
    LET section == metadata_section(response)
        summary == Take(response.summary_source, SummaryLimit)
    IN  IF section.nonempty
        THEN [ summary |-> summary,
               seo_description |-> IF section.seo = NoArg THEN <<>> ELSE section.seo[1],
               keywords |-> IF section.keywords = NoArg THEN <<>>
                            ELSE section.keywords[1],
               entities |-> IF section.entities = "json" THEN ParsedEntities ELSE {},
               instagram_summary |-> IF section.instagram = NoArg
                                     THEN Take(summary, InstagramLimit)
                                     ELSE section.instagram[1] ]
        ELSE [ summary |-> summary,
               seo_description |-> Take(summary, SeoLimit),
               keywords |-> <<>>,
               entities |-> {},
               instagram_summary |-> Take(summary, InstagramLimit) ]

(***************************************************************************)
(* Functions called on their own: parse_gemini_response on a response, and *)
(* mark_article_published on a store that holds no article or one draft    *)
(* article with its SourceCache row.                                       *)
(***************************************************************************)
CallFrame == UNCHANGED <<settings, ingest, metadata, publish_queue, source_cache,
                         sweep, run, hist>>

\* A call parse_gemini_response(response).
ParseCall ==
    /\ call.pc = "parse"
    /\ call' = [pc |-> "parsed", response |-> call.response,
                result |-> parse_gemini_response(call.response)]
    /\ UNCHANGED articles
    /\ CallFrame

\* database.py lines 218-227: the function returns None whether or not it
\* found the article.
MarkPublishedOutcome(arts, article_id) == Returned(None, FALSE)

\* A call mark_article_published(db, article_id).
MarkPublishedCall ==
    /\ call.pc = "mark"
    /\ articles' = mark_article_published(articles, call.article_id)
    /\ call' = [pc |-> "marked", article_id |-> call.article_id,
                before |-> articles,
                outcome |-> MarkPublishedOutcome(articles, call.article_id)]
    /\ CallFrame

CallInit ==
    /\ settings \in ValidSettings
    /\ \/ articles = <<>> /\ source_cache = {}
       \/ articles = << NewArticle("u1") >>
          /\ source_cache = { NewCacheEntry("u1", "g1") }
    /\ metadata = <<>>
    /\ publish_queue = <<>>
    /\ sweep = [d \in Sweeps |-> IdleSweep]
    /\ run = IdleRun
    /\ sink_log = <<>>
    /\ cms_ok = {}
    /\ run_log = NoLog
    /\ ingest = IngestOff
    /\ call \in { [pc |-> "parse", response |-> r] : r \in Responses }
               \cup { [pc |-> "mark", article_id |-> a] : a \in 0..MaxArticles + 1 }

CallNext ==
    \/ ParseCall
    \/ MarkPublishedCall

CallSpec == CallInit /\ [][CallNext]_vars

(***************************************************************************)
(* The ingestion functions applied to a fetched list, and the trim of      *)
(* run_pipeline applied to what fetch_all_sources returned.                *)
(***************************************************************************)
IngestFrame == UNCHANGED <<settings, db, sweep, run, hist, call>>

\* A call filter_content(fetched, min_score).
FilterContentCall(min_score) ==
    /\ ingest.pc = "fetched"
    /\ ingest' = [ingest EXCEPT !.pc = "filtered", !.min_score = min_score,
                                !.out = filter_content(ingest.fetched, min_score)]
    /\ IngestFrame

\* A call deduplicate(fetched).
DeduplicateCall ==
    /\ ingest.pc = "fetched"
    /\ ingest' = [ingest EXCEPT !.pc = "deduplicated",
                                !.out = deduplicate(ingest.fetched)]
    /\ IngestFrame

\* fetch_all_sources lines 345-354 on the items the sources yielded.
FetchAllSourcesCall ==
    /\ ingest.pc = "fetched"
    /\ ingest' = [ingest EXCEPT !.pc = "ingested",
                                !.out = fetch_all_sources(ingest.fetched)]
    /\ IngestFrame

\* run_pipeline lines 41-53: an empty list returns at line 50; otherwise the
\* list is cut to raw_articles[:max_articles], which the loop then visits in
\* order.
RunTrim(max_articles) ==
    /\ ingest.pc = "ingested"
    /\ ingest.out # <<>>
    /\ ingest' = [ingest EXCEPT
                    !.pc = "trimmed", !.max_articles = max_articles,
                    !.visit = SubSeq(ingest.out, 1,
                                     TrimLen(Len(ingest.out), max_articles))]
    /\ IngestFrame

IngestInit ==
    /\ PipelineInit
    /\ call = CallOff
    /\ ingest \in { [IngestOff EXCEPT !.pc = "fetched", !.fetched = f] :
                      f \in FetchedLists }

IngestNext ==
    \/ \E min_score \in MinScoreArgs : FilterContentCall(min_score)
    \/ DeduplicateCall
    \/ FetchAllSourcesCall
    \/ \E max_articles \in MaxArticlesArgs : RunTrim(max_articles)

IngestSpec == IngestInit /\ [][IngestNext]_vars

(***************************************************************************)
(* Two processes that call process_publish_queue on the same database,     *)
(* each with its own session.  The store holds one draft article with its  *)
(* SourceCache row, as a run leaves it; entries are enqueued while no       *)
(* sweep is under way.  Each sweep is a loop of straight-line code whose    *)
(* remote calls carry timeouts, so a sweep that can take a step does.      *)
(***************************************************************************)
ConcSweeps == {1, 2}

ConcInit ==
    /\ settings \in ValidSettings
    /\ articles = << NewArticle("u1") >>
    /\ source_cache = { NewCacheEntry("u1", "g1") }
    /\ metadata = <<>>
    /\ publish_queue = <<>>
    /\ sweep = [d \in ConcSweeps |-> IdleSweep]
    /\ run = IdleRun
    /\ sink_log = <<>>
    /\ cms_ok = {}
    /\ run_log = NoLog
    /\ ingest = IngestOff
    /\ call = CallOff

ConcNext ==
    \/ \E a \in DOMAIN articles, p \in PublishPlatform : Enqueue(MaxConcQueue, a, p)
    \/ \E d \in ConcSweeps : DrainStartConcurrent(d)
    \/ \E d \in ConcSweeps : DrainClaim(d)
    \/ \E d \in ConcSweeps : DrainPublish(d)
    \/ \E d \in ConcSweeps : DrainEnd(d)

ConcSpec ==
    /\ ConcInit
    /\ [][ConcNext]_vars
    /\ \A d \in ConcSweeps :
         /\ WF_vars(DrainClaim(d))
         /\ WF_vars(DrainPublish(d))
         /\ WF_vars(DrainEnd(d))

(***************************************************************************)
(* Runs of a process that can stop at any point (killed, power loss).      *)
(* What db.commit() has written stays; the session of the stopped process  *)
(* is gone.  The runs have room for one article more than in Spec, so that *)
(* a run can persist after an earlier one did.                             *)
(***************************************************************************)
\* A stop that takes the Article of an unfinished save_article with it.
AfterStopRolledBack(arts, r) ==
    IF r.pc = "cache" THEN SubSeq(arts, 1, Len(arts) - 1) ELSE arts

\* database.py lines 108-110: the Article is committed on its own, before
\* the SourceCache row is added; a stop after that commit leaves it stored.
AfterStop(arts, r) == arts

\* The process stops in the middle of run_pipeline.
RunStop ==
    /\ run.pc # "idle"
    /\ articles' = AfterStop(articles, run)
    /\ run' = IdleRun
    /\ run_log' = NoLog
    /\ UNCHANGED <<env, metadata, publish_queue, source_cache, sweep, sink_log, cms_ok>>

StopNext ==
    \/ \E fetched \in 0..MaxItems, n \in MaxArticlesArgs, dry \in BOOLEAN :
         RunStartWithin(MaxArticles + 1, fetched, n, dry)
    \/ RunCheck
    \/ RunAnalyze
    \/ RunSaveArticleWithin(MaxArticles + 1)
    \/ RunCacheEntry
    \/ RunSaveMetadata
    \/ RunEnd
    \/ RunStop

StopSpec == Init /\ [][StopNext]_vars

Next ==
    \/ \E a \in 1..MaxArticles + 1, p \in PublishPlatform : schedule_publication(a, p)
    \/ \E d \in Sweeps : DrainStart(d)
    \/ \E d \in Sweeps : DrainClaim(d)
    \/ \E d \in Sweeps : DrainPublish(d)
    \/ \E d \in Sweeps : DrainEnd(d)
    \/ \E fetched \in 0..MaxItems, n \in MaxArticlesArgs, dry \in BOOLEAN :
         RunStart(fetched, n, dry)
    \/ RunCheck
    \/ RunAnalyze
    \/ RunSaveArticle
    \/ RunCacheEntry
    \/ RunSaveMetadata
    \/ RunEnd

Spec == Init /\ [][Next]_vars

(***************************************************************************)
(* Properties.                                                             *)
(***************************************************************************)
\* This step invoked the sink of queue entry q.
SinkCalled(q) ==
    q \in DOMAIN sink_log /\ Len(sink_log'[q]) = Len(sink_log[q]) + 1
\* The outcome of the sink call this step made for q.
LastOutcome(q) == sink_log'[q][Len(sink_log'[q])]
\* The sweep d has gone through its whole list and is about to return.
SweepDone(d) == sweep[d].pc = "loop" /\ sweep[d].i > Len(sweep[d].pending)

\* C1: every queue entry is created pending, entries are never removed, and
\* the status of an entry changes only by pending -> processing,
\* processing -> completed or processing -> failed.
C1_StatusTransitions ==
    [][ /\ DOMAIN publish_queue \subseteq DOMAIN publish_queue'
        /\ \A q \in DOMAIN publish_queue' :
             IF q \in DOMAIN publish_queue
             THEN \/ publish_queue'[q].status = publish_queue[q].status
                  \/ <<publish_queue[q].status, publish_queue'[q].status>> \in
                       { <<PENDING, PROCESSING>>, <<PROCESSING, COMPLETED>>,
                         <<PROCESSING, FAILED>> }
             ELSE publish_queue'[q].status = PENDING ]_vars

\* One sweep took one entry to completed and another to failed.
C1_Witness ==
    \E q1, q2 \in DOMAIN publish_queue :
        /\ publish_queue[q1].status = COMPLETED
        /\ publish_queue[q2].status = FAILED

\* C2: retry_count starts at 0, grows by exactly 1 in a step that takes the
\* entry to failed, and is unchanged by every other step (to processing, to
\* completed, or leaving the entry alone).
C2_RetryCount ==
    [][ \A q \in DOMAIN publish_queue' :
          IF q \notin DOMAIN publish_queue
          THEN publish_queue'[q].retry_count = 0
          ELSE IF publish_queue'[q].status = FAILED /\ publish_queue[q].status # FAILED
          THEN publish_queue'[q].retry_count = publish_queue[q].retry_count + 1
          ELSE publish_queue'[q].retry_count = publish_queue[q].retry_count ]_vars

\* An entry has failed once and another has completed without a retry counted.
C2_Witness ==
    \E q1, q2 \in DOMAIN publish_queue :
        /\ publish_queue[q1].status = FAILED /\ publish_queue[q1].retry_count = 1
        /\ publish_queue[q2].status = COMPLETED /\ publish_queue[q2].retry_count = 0

\* C3: when the CMS sink call of a sweep raises, the step leaves the entry
\* failed with retry_count 1 and the exception's message as error_message,
\* and leaves every article as it was (the referenced one is not marked
\* published).
C3_CmsFailure ==
    [][ \A q \in DOMAIN publish_queue :
          (SinkCalled(q) /\ LastOutcome(q).raised /\ publish_queue[q].platform = STRAPI)
          => /\ publish_queue'[q].status = FAILED
             /\ publish_queue'[q].retry_count = 1
             /\ publish_queue'[q].error_message = LastOutcome(q).value
             /\ articles' = articles ]_vars

\* A CMS entry failed on a timeout and its article is still a draft.
C3_Witness ==
    \E q \in DOMAIN publish_queue :
        /\ publish_queue[q].platform = STRAPI
        /\ publish_queue[q].status = FAILED
        /\ publish_queue[q].retry_count = 1
        /\ publish_queue[q].error_message = "timeout"
        /\ articles[publish_queue[q].article_id].status = DRAFT

\* What C4 says of a sink call that returned, apart from platform_data.
C4_Completed(q) ==
    /\ publish_queue'[q].status = COMPLETED
    /\ publish_queue'[q].published_time # None
    /\ IF publish_queue[q].platform = STRAPI
       THEN articles'[publish_queue[q].article_id].status = PUBLISHED
       ELSE articles' = articles

\* C4 as stated: when the sink call returns, the entry is completed with
\* published_time set and platform_data equal to what the sink returned; the
\* article becomes published exactly when the platform is the CMS.
C4_Original ==
    [][ \A q \in DOMAIN publish_queue :
          (SinkCalled(q) /\ ~LastOutcome(q).raised)
          => /\ C4_Completed(q)
             /\ publish_queue'[q].platform_data = LastOutcome(q).value ]_vars

\* C4 amended: platform_data is what the sink returned when that is not
\* empty; an empty answer leaves platform_data as it was.
C4_Amended ==
    [][ \A q \in DOMAIN publish_queue :
          (SinkCalled(q) /\ ~LastOutcome(q).raised)
          => /\ C4_Completed(q)
             /\ publish_queue'[q].platform_data =
                  IF Truthy(LastOutcome(q).value)
                  THEN LastOutcome(q).value
                  ELSE publish_queue[q].platform_data ]_vars

\* A CMS entry completed on an empty answer, and a social entry completed
\* with its article still a draft.
C4_Witness ==
    \E q1, q2 \in DOMAIN publish_queue :
        /\ publish_queue[q1].platform = STRAPI
        /\ publish_queue[q1].status = COMPLETED
        /\ sink_log[q1] = << Returned(EmptyData, TRUE) >>
        /\ publish_queue[q1].platform_data = None
        /\ publish_queue[q2].platform = INSTAGRAM
        /\ publish_queue[q2].status = COMPLETED
        /\ publish_queue[q2].platform_data = InstagramOk
        /\ articles[publish_queue[q1].article_id].status = PUBLISHED

\* C5: an article is created draft, its status changes only from draft to
\* published, and a published article is one whose CMS delivery succeeded.
C5_ArticleStatus ==
    [][ /\ DOMAIN articles \subseteq DOMAIN articles'
        /\ \A a \in DOMAIN articles' :
             /\ articles'[a].status = PUBLISHED => a \in cms_ok'
             /\ IF a \in DOMAIN articles
                THEN articles'[a].status # articles[a].status
                     => articles[a].status = DRAFT /\ articles'[a].status = PUBLISHED
                ELSE articles'[a].status = DRAFT ]_vars

\* An article is published after a CMS delivery, and a later CMS delivery of
\* it failed without taking the status back.
C5_Witness ==
    \E q1, q2 \in DOMAIN publish_queue :
        /\ publish_queue[q1].platform = STRAPI /\ publish_queue[q1].status = COMPLETED
        /\ publish_queue[q2].platform = STRAPI /\ publish_queue[q2].status = FAILED
        /\ publish_queue[q1].article_id = publish_queue[q2].article_id
        /\ articles[publish_queue[q1].article_id].status = PUBLISHED

\* C6: when a sweep has gone through its list, every entry of the queue has
\* had its sink invoked and is completed or failed: none is left pending or
\* processing.
C6_SweepCompletes ==
    \A d \in Sweeps :
        SweepDone(d) =>
            \A q \in DOMAIN publish_queue :
                /\ publish_queue[q].status \in {COMPLETED, FAILED}
                /\ Len(sink_log[q]) >= 1

\* A sweep over two entries whose first sink raised and whose second returned.
C6_Witness ==
    \E d \in Sweeps :
        /\ SweepDone(d)
        /\ Len(sweep[d].pending) = 2
        /\ publish_queue[sweep[d].pending[1]].status = FAILED
        /\ publish_queue[sweep[d].pending[2]].status = COMPLETED

\* C7: no step changes an entry that is failed or completed, or invokes its
\* sink.
C7_FailedIsTerminal ==
    [][ \A q \in DOMAIN publish_queue :
          publish_queue[q].status \in {FAILED, COMPLETED}
          => /\ publish_queue'[q] = publish_queue[q]
             /\ sink_log'[q] = sink_log[q] ]_vars

\* A later sweep has run to its end while an entry of an earlier sweep is
\* still failed, with one sink call and one retry.
C7_Witness ==
    \E d \in Sweeps, q \in DOMAIN publish_queue :
        /\ SweepDone(d)
        /\ \A k \in DOMAIN sweep[d].pending : sweep[d].pending[k] # q
        /\ publish_queue[q].status = FAILED
        /\ publish_queue[q].retry_count = 1
        /\ Len(sink_log[q]) = 1

\* C8: the run calls the analysis only for an item the dedup gate has just
\* answered "new" for, and which is no duplicate in the store; a step that
\* reports an item duplicate calls no analysis, persists nothing and invokes
\* no sink, and the run persists an article only for an item passed as new.
C8_GateBeforeAnalysis ==
    [][ /\ run_log'.analysis_calls = run_log.analysis_calls + 1
           => /\ run.pc = "analyze"
              /\ run_log.verdict = "new"
              /\ ~is_duplicate(source_cache, run.item.url, run.item.content)
        /\ (run.pc = "check" /\ run'.pc \in {"check", "summary"})
           => /\ run'.skipped_count = run.skipped_count + 1
              /\ run_log'.analysis_calls = run_log.analysis_calls
              /\ run_log'.deliveries = run_log.deliveries
              /\ UNCHANGED <<articles, metadata, source_cache, publish_queue, cms_ok>>
        /\ (run.pc # "idle" /\ articles' # articles)
           => run_log.verdict = "new" ]_vars

\* A run persisted its first item and skipped its second as a duplicate,
\* with a single analysis call.
C8_Witness ==
    /\ run.pc = "summary"
    /\ run.n = 2
    /\ run.skipped_count = 1
    /\ run_log.analysis_calls = 1
    /\ Len(articles) = 1
    /\ source_cache # {}

C10_ContentDuplicateDetected ==
    (run.pc = "meta" /\ run.item.url # "")
    => \A u2 \in Urls \ {run.item.url} :
           is_duplicate(source_cache, u2, run.item.content)

\* The loop is done with the item it was at: on to the next, or to the summary.
NextItem ==
    /\ run'.idx = run.idx + 1
    /\ run'.pc = IF run.idx + 1 > run.n THEN "summary" ELSE "check"

\* C11: every record of the dedup store has a persisted article with the
\* same source URL, and a record is written only by the run, for the article
\* it has already committed, from an analysis that was accepted.
C11_RecordHasArticle ==
    [][ /\ \A c \in source_cache' :
             \E a \in DOMAIN articles' : articles'[a].source_url = c.source_url
        /\ \A c \in source_cache' \ source_cache :
             /\ run.pc = "cache"
             /\ run_log.verdict = "new"
             /\ run.article_id \in DOMAIN articles
             /\ articles[run.article_id].source_url = c.source_url
             /\ run.analysis.word_count >= article_min_words ]_vars

\* A run of two items: the analysis of one raised and left no record, the
\* other was persisted with its record.
C11_Witness ==
    /\ run.pc = "summary"
    /\ run.n = 2
    /\ run.skipped_count = 0
    /\ run_log.analysis_calls = 2
    /\ Len(articles) = 1
    /\ \E c \in source_cache : source_cache = {c} /\ c.source_url = articles[1].source_url

\* C12: when the analysis call raises for an item, the step writes no
\* article, no dedup record, no metadata and no queue entry, and the loop
\* goes on to the next item.
C12_GenerationRaises ==
    [][ (run.pc = "analyze" /\ run_log'.verdict = "error")
        => /\ UNCHANGED <<articles, metadata, source_cache, publish_queue>>
           /\ NextItem ]_vars

\* The analysis of the first of two items raised: nothing is stored and the
\* run is at the gate with the second item.
C12_Witness ==
    /\ run.pc = "check"
    /\ run.idx = 2
    /\ run_log.verdict = "error"
    /\ run_log.analysis_calls = 1
    /\ articles = <<>>
    /\ source_cache = {}

\* C13: when the analysis of an item is below the minimum word count, the
\* step persists nothing, invokes no sink, counts the item as skipped and goes
\* on to the next item; an analysis below the minimum never reaches
\* save_article.
C13_TooShortSkipped ==
    [][ /\ (run.pc = "analyze" /\ run'.pc \in {"check", "summary"}
                               /\ run_log'.verdict # "error")
           => /\ run_log'.verdict = "short"
              /\ UNCHANGED <<articles, metadata, source_cache, publish_queue,
                             sink_log, cms_ok>>
              /\ run_log'.deliveries = run_log.deliveries
              /\ run'.skipped_count = run.skipped_count + 1
              /\ NextItem
        /\ run'.pc \in {"save", "cache", "meta"}
           => run'.analysis.word_count >= article_min_words ]_vars

\* The first of two items was skipped as too short and nothing is stored.
C13_Witness ==
    /\ run.pc = "check"
    /\ run.idx = 2
    /\ run_log.verdict = "short"
    /\ run.skipped_count = 1
    /\ articles = <<>>
    /\ metadata = <<>>
    /\ source_cache = {}

\* C14: a run that has started its loop ends only through its summary,
\* which it reaches after visiting every item of the trimmed list, whichever
\* step of an item raised.
C14_RunReachesSummary ==
    [][ (run.pc # "idle" /\ run'.pc = "idle")
        => (run.pc = "summary" /\ run.idx > run.n) ]_vars

\* C15: in a non-dry run, the loop is not done with an item that passed the
\* dedup gate and the word count, and was persisted, before a CMS delivery
\* was attempted for it.
C15_DeliveriesAttempted ==
    [][ (run.pc = "meta" /\ ~run.dry_run /\ run'.pc # "meta")
        => run_log'.deliveries > run_log.deliveries ]_vars

\* C16: in a non-dry run, when the loop is done with an item it persisted,
\* the article has a queue entry.
C16_RunEnqueues ==
    [][ (run.pc = "meta" /\ ~run.dry_run /\ run'.pc # "meta")
        => \E q \in DOMAIN publish_queue' :
               publish_queue'[q].article_id = run.article_id ]_vars

\* C17: when the run reaches its summary, every article has exactly one
\* metadata row referencing it.
C17_MetadataPerArticle ==
    run.pc = "summary"
    => \A a \in DOMAIN articles :
           Cardinality({ i \in DOMAIN metadata : metadata[i].article_id = a }) = 1

\* The limit a max_articles argument asks for: the configured default when
\* the argument is not given.
AskedLimit(max_articles) ==
    IF max_articles = NoArg THEN max_articles_per_run ELSE max_articles[1]

\* C18: the run visits at most maxArticles items, and they are the first
\* maxArticles items of what the filter returned, so that no item left out
\* has a strictly higher score than a visited one.
C18_TrimTakesTopN ==
    ingest.pc = "trimmed"
    => LET limit == AskedLimit(ingest.max_articles)
           n == Len(ingest.visit)
       IN  /\ n <= limit
           /\ n = (IF limit < Len(ingest.out) THEN limit ELSE Len(ingest.out))
           /\ ingest.visit = SubSeq(ingest.out, 1, n)
           /\ \A i \in 1..n, j \in (n + 1)..Len(ingest.out) :
                ~Less(ingest.out[i].relevance_score, ingest.out[j].relevance_score)

\* The threshold a call of filter_content applies.
UsedThreshold == IF ingest.min_score = NoScore THEN min_relevance_score ELSE ingest.min_score

\* The input items a call of filter_content has to keep.
Qualifies(item) ==
    /\ ~Less(calculate_relevance_score(item), UsedThreshold)
    /\ item.content_len >= MinContentLength

\* C19: the output of filter_content holds exactly the input items whose
\* score is at least min_score and whose body has at least the minimum
\* length (each as many times as in the input, with its score written in),
\* in descending order of score; no item with a 50-character body is in it.
C19_FilterExact ==
    ingest.pc = "filtered"
    => /\ \A x \in { Scored(ingest.fetched[i]) : i \in DOMAIN ingest.fetched }
                   \cup { ingest.out[i] : i \in DOMAIN ingest.out } :
            Cardinality({ i \in DOMAIN ingest.out : ingest.out[i] = x })
            = Cardinality({ i \in DOMAIN ingest.fetched :
                              /\ Qualifies(ingest.fetched[i])
                              /\ Scored(ingest.fetched[i]) = x })
       /\ \A i, j \in DOMAIN ingest.out :
            i < j => ~Less(ingest.out[i].relevance_score, ingest.out[j].relevance_score)
       /\ \A i \in DOMAIN ingest.out : ingest.out[i].content_len # 50

\* Of two fetched items with the full score, the one with a 50-character
\* body was dropped and the other kept.
C19_Witness ==
    /\ ingest.pc = "filtered"
    /\ Len(ingest.fetched) = 2
    /\ Len(ingest.out) = 1
    /\ \E i \in DOMAIN ingest.fetched :
         /\ ingest.fetched[i].content_len = 50
         /\ calculate_relevance_score(ingest.fetched[i]) = <<12, 12>>

\* No two items of the list xs have the same normalized title.
NoTitleTwice(xs) ==
    \A i, j \in DOMAIN xs :
        i # j => normalize(xs[i].title) # normalize(xs[j].title)

\* C20 as stated: whatever the input list, the output of filter_content has
\* no two items with the same normalized title.
C20_FilterNoTitleTwice ==
    ingest.pc = "filtered" => NoTitleTwice(ingest.out)

\* C20 amended: the output of fetch_all_sources (deduplicate, then
\* filter_content), and so the list the run visits, has no two items with the
\* same normalized title.
C20_IngestedNoTitleTwice ==
    ingest.pc \in {"ingested", "trimmed"}
    => NoTitleTwice(ingest.out) /\ NoTitleTwice(ingest.visit)

\* Two fetched items whose titles differ in case and punctuation only both
\* pass the filter, and fetch_all_sources returned the first of them alone.
C20_Witness ==
    /\ ingest.pc = "ingested"
    /\ Len(ingest.fetched) = 2
    /\ ingest.fetched[1].title # ingest.fetched[2].title
    /\ normalize(ingest.fetched[1].title) = normalize(ingest.fetched[2].title)
    /\ \A i \in 1..2 :
         /\ ~Less(calculate_relevance_score(ingest.fetched[i]), min_relevance_score)
         /\ ingest.fetched[i].content_len >= MinContentLength
    /\ ingest.out = << Scored(ingest.fetched[1]) >>

\* The keyword occurs in the text of the item, whatever the case of either.
OccursIn(keyword, item) == \E phrase \in item.text : Lower(phrase) = Lower(keyword)

\* C21: the score filter_content writes into an item is the number of the
\* keywords of the item's category that occur in its text, case-insensitively,
\* divided by the size of the keyword set (0.0 for an empty set), never above
\* 1.0, and lies in [0, 1].
C21_ScoreIsMatchRatio ==
    ingest.pc = "filtered"
    => \A i \in DOMAIN ingest.out :
         LET item == ingest.out[i]
             keywords == RELEVANCE_KEYWORDS[item.category]
             hits == Cardinality({ k \in keywords : OccursIn(k, item) })
             size == Cardinality(keywords)
             score == item.relevance_score
         IN  /\ score = (IF size = 0 THEN <<0, 1>>
                         ELSE IF hits > size THEN <<1, 1>>
                         ELSE <<hits, size>>)
             /\ score[2] > 0 /\ 0 <= score[1] /\ score[1] <= score[2]

\* A defense item whose text holds nine of the thirteen defense keywords, two
\* of them spelled with capitals ("NATO", "Military"), was scored 9/13.
C21_Witness ==
    /\ ingest.pc = "filtered"
    /\ \E i \in DOMAIN ingest.out :
         /\ ingest.out[i].category = "defense"
         /\ ingest.out[i].text = TextDef10
         /\ ingest.out[i].relevance_score = <<9, 13>>

\* The titles of the model up to case and punctuation.
TitleKey(title) ==
    CASE title = <<"N", "a">> -> "na"
      [] title = <<"n", "a", "!">> -> "na"
      [] title = <<"b">> -> "b"

\* The positions of the fetched list that hold the first item of their title.
FirstOfTitle ==
    { i \in DOMAIN ingest.fetched :
        \A j \in 1..(i - 1) :
            TitleKey(ingest.fetched[j].title) # TitleKey(ingest.fetched[i].title) }

\* C22: the output of deduplicate is the input restricted, in the input's
\* order, to the first item of each title, where titles that differ in case or
\* punctuation only are the same title; every later item of a title is dropped.
C22_KeepsFirstOfEachTitle ==
    ingest.pc = "deduplicated"
    => /\ Len(ingest.out) = Cardinality(FirstOfTitle)
       /\ \A i \in FirstOfTitle :
            ingest.out[Cardinality({ j \in FirstOfTitle : j <= i })] = ingest.fetched[i]

\* Of two fetched items titled "Na" and "na!", in this order, deduplicate
\* returned the first alone.
C22_Witness ==
    /\ ingest.pc = "deduplicated"
    /\ Len(ingest.fetched) = 2
    /\ ingest.fetched[1].title = <<"N", "a">>
    /\ ingest.fetched[2].title = <<"n", "a", "!">>
    /\ ingest.out = << ingest.fetched[1] >>

\* C23: for a response without the marker "---METADATA---", the parsed
\* result has no keywords, no entities, and its seoDescription is the first
\* 160 characters of the derived summary (all of it when it is shorter).
C23_NoMarkerFallback ==
    (call.pc = "parsed" /\ ~call.response.marker)
    => /\ call.result.keywords = <<>>
       /\ call.result.entities = {}
       /\ Len(call.result.seo_description) <= 160
       /\ Len(call.result.seo_description)
            = (IF Len(call.result.summary) < 160 THEN Len(call.result.summary) ELSE 160)
       /\ \A i \in DOMAIN call.result.seo_description :
            call.result.seo_description[i] = call.result.summary[i]

\* A response without the marker whose text holds a KEYWORDS line and an
\* ENTITIES object, and a summary text of 501 characters, was parsed: the
\* summary has 500 characters and the seoDescription 160.
C23_Witness ==
    /\ call.pc = "parsed"
    /\ ~call.response.marker
    /\ call.response.labelled.keywords # <<>>
    /\ call.response.labelled.entities = "json"
    /\ Len(call.response.summary_source) = 501
    /\ Len(call.result.summary) = 500
    /\ Len(call.result.seo_description) = 160

\* C24: a call mark_article_published with an id that matches no article
\* fails with an error that reaches the caller, and leaves the articles as
\* they were.
C24_UnknownIdRaises ==
    (call.pc = "marked" /\ call.article_id \notin DOMAIN call.before)
    => /\ call.outcome.raised
       /\ articles = call.before

\* Sweep d has read queue entry q as pending and has not come to it yet.
ReadAsPending(d, q) ==
    /\ sweep[d].pc = "loop"
    /\ \E k \in DOMAIN sweep[d].pending : k >= sweep[d].i /\ sweep[d].pending[k] = q

\* C25: when two sweeps have both read the same entry as pending, neither
\* is stopped by the other's claim: the sink of the entry is invoked twice.
C25_BothSweepsInvoke ==
    \A q \in 1..MaxConcQueue :
        (\A d \in ConcSweeps : ReadAsPending(d, q))
        ~> (q \in DOMAIN sink_log /\ Len(sink_log[q]) = 2)

\* One Strapi entry was delivered to the CMS twice, once by each sweep.
C25_Witness ==
    \E q \in DOMAIN sink_log :
        /\ publish_queue[q].platform = STRAPI
        /\ Len(sink_log[q]) = 2
        /\ sink_log[q][1].delivered
        /\ sink_log[q][2].delivered

\* C26: a sweep handles the pending entries in the order of their creation:
\* when it invokes the sink of an entry, no entry created earlier is still
\* pending.
C26_CreationOrder ==
    [][ \A q \in DOMAIN sink_log :
          SinkCalled(q)
          => \A earlier \in 1..(q - 1) : publish_queue[earlier].status # PENDING ]_vars

\* The store holds no SourceCache row for the URL.
NoRecordFor(cache, url) == \A c \in cache : c.source_url # url

\* C27: a process that stops between the two commits of save_article leaves
\* the Article stored and no SourceCache row for its URL; and as long as an
\* Article has no row for its URL, the gate lets an item with that URL and a
\* body whose hash is not stored through to the analysis.
C27_StopBetweenCommits ==
    [][ /\ (run.pc = "cache" /\ run'.pc = "idle")
           => /\ articles' = articles
              /\ source_cache' = source_cache
              /\ articles'[run.article_id].source_url = run.item.url
              /\ NoRecordFor(source_cache', run.item.url)
        /\ \A a \in DOMAIN articles', b \in Bodies :
             ( /\ NoRecordFor(source_cache', articles'[a].source_url)
               /\ \A c \in source_cache' : c.content_hash # create_content_hash(b) )
             => ~DedupGate(source_cache', [url |-> articles'[a].source_url, content |-> b])
      ]_vars

\* Two Articles for the same non-empty source URL are stored: the first was
\* left without its SourceCache row by a stop, and a later run analyzed the
\* item again and persisted it a second time.
C27_Witness ==
    /\ Len(articles) = 2
    /\ articles[1].source_url = articles[2].source_url
    /\ articles[1].source_url # ""
    /\ run.pc = "cache"
    /\ run.article_id = 2
    /\ source_cache = {}

\* This step called the analysis for the item the loop is at.
AnalysisCalled == run.pc = "analyze" /\ run_log'.analysis_calls > run_log.analysis_calls

C29_DedupBeforeFilter ==
    ingest.pc \in {"ingested", "trimmed"}
    => /\ \A i \in DOMAIN ingest.out :
            \E k \in FirstOfTitle : ingest.out[i] = Scored(ingest.fetched[k])
       /\ \A k \in FirstOfTitle :
            ~Qualifies(ingest.fetched[k])
            => \A i \in DOMAIN ingest.out :
                   TitleKey(ingest.out[i].title) # TitleKey(ingest.fetched[k].title)
       /\ \A i \in DOMAIN ingest.visit :
            \E j \in DOMAIN ingest.out : ingest.visit[i] = ingest.out[j]

\* Two fetched items titled "Na" and "na!": the first has a 50-character
\* body and is dropped by the filter, the second would pass it, and
\* fetch_all_sources returned nothing.
C29_Witness ==
    /\ ingest.pc = "ingested"
    /\ Len(ingest.fetched) = 2
    /\ ingest.fetched[1].title = <<"N", "a">>
    /\ ingest.fetched[2].title = <<"n", "a", "!">>
    /\ ingest.fetched[1].content_len = 50
    /\ Qualifies(ingest.fetched[2])
    /\ ingest.out = <<>>

\* C30: while a run is in its loop or at its summary, processed + skipped is
\* at most the number of items the loop is done with, and processed is at
\* most the number of articles the run has persisted; a step changes at most
\* one of the two counters, by exactly 1 and only as the loop leaves an item;
\* and an item whose processing raised changes neither.
C30_Counters ==
    [][ (run.pc # "idle" /\ run'.pc # "idle")
        => /\ run'.processed_count + run'.skipped_count <= run'.idx - 1
           /\ run'.idx - 1 <= run'.n
           /\ run'.processed_count <= run_log'.persisted
           /\ \/ /\ run'.processed_count = run.processed_count
                 /\ run'.skipped_count = run.skipped_count
              \/ /\ run'.processed_count = run.processed_count + 1
                 /\ run'.skipped_count = run.skipped_count
                 /\ run'.idx = run.idx + 1
              \/ /\ run'.processed_count = run.processed_count
                 /\ run'.skipped_count = run.skipped_count + 1
                 /\ run'.idx = run.idx + 1
           /\ (run'.idx = run.idx + 1 /\ run_log'.verdict = "error")
              => /\ run'.processed_count = run.processed_count
                 /\ run'.skipped_count = run.skipped_count ]_vars

\* A run of two items is at its summary: the first item was persisted and
\* then raised, the second was skipped; processed is 0 and skipped is 1.
C30_Witness ==
    /\ run.pc = "summary"
    /\ run.n = 2
    /\ run.idx = 3
    /\ run.processed_count = 0
    /\ run.skipped_count = 1
    /\ run_log.persisted = 1

====
